---------------------------- MODULE Spec2Model ----------------------------
(***************************************************************************)
(* Kitchen-island stone visualizer: the texture selector                   *)
(* (components/stone-visualizer/TextureSelector.tsx, first component of    *)
(* the file), the zustand store (lib/store.ts), the dimension inputs       *)
(* (ControlPanel.tsx) and the texture extraction (lib/texture-utils, kept  *)
(* as unnamed/part_001).                                                   *)
(*                                                                         *)
(* JavaScript numbers are modelled as exact rationals <<n, d>> in lowest   *)
(* terms, d > 0.  The values the program computes here are sums, products  *)
(* and quotients of integers and of the decimal literals 0.3, 0.94, 0.55,  *)
(* 0.25, 0.15; Math.round is modelled exactly (QRound); Math.cos/Math.sin  *)
(* are modelled at the four rotations the program stores by their exact    *)
(* values (the doubles differ from them by less than 2e-16).               *)
(***************************************************************************)
EXTENDS Integers, Sequences, FiniteSets, TLC

-----------------------------------------------------------------------------
(* Exact rational arithmetic for JavaScript numbers.                       *)

RECURSIVE Gcd(_, _)
Gcd(a, b) == IF b = 0 THEN a ELSE Gcd(b, a % b)

Abs(n) == IF n < 0 THEN -n ELSE n

\* the rational n/d in lowest terms, d # 0
Q(n, d) ==
    LET s == IF d < 0 THEN -1 ELSE 1
        g == Gcd(Abs(n), Abs(d))
    IN  <<(s * n) \div g, (s * d) \div g>>

QInt(n) == <<n, 1>>
QZero == <<0, 1>>

QMul(p, q) ==
    LET g1 == Gcd(Abs(p[1]), q[2])
        g2 == Gcd(Abs(q[1]), p[2])
    IN  Q((p[1] \div g1) * (q[1] \div g2), (p[2] \div g2) * (q[2] \div g1))

\* p / q, q # 0
QDiv(p, q) == QMul(p, Q(q[2], q[1]))

QAdd(p, q) ==
    LET g == Gcd(p[2], q[2])
        l == (p[2] \div g) * q[2]
    IN  Q(p[1] * (l \div p[2]) + q[1] * (l \div q[2]), l)

QNeg(p) == <<-p[1], p[2]>>
QSub(p, q) == QAdd(p, QNeg(q))

\* a/b <= c/d for b, d > 0, without multiplying: the whole parts decide, or
\* else the fractional parts, compared through their reciprocals
RECURSIVE FracLe(_, _, _, _)
FracLe(a, b, c, d) ==
    LET fa == a \div b
        fc == c \div d
        ra == a % b
        rc == c % d
    IN  IF fa # fc THEN fa < fc
        ELSE IF ra = 0 THEN TRUE
        ELSE IF rc = 0 THEN FALSE
        ELSE FracLe(d, rc, b, ra)

QLe(p, q) == FracLe(p[1], p[2], q[1], q[2])

QLt(p, q) == ~QLe(q, p)
QMax(p, q) == IF QLe(p, q) THEN q ELSE p
QMin(p, q) == IF QLe(p, q) THEN p ELSE q
QAbs(p) == <<Abs(p[1]), p[2]>>

\* Math.round: the nearest integer, halves rounded towards +Infinity
QRound(p) == (2 * p[1] + p[2]) \div (2 * p[2])

\* conversion of a number to a canvas width/height (unsigned long): truncation,
\* for the non-negative values the program assigns
QTrunc(p) == p[1] \div p[2]

-----------------------------------------------------------------------------
(* Program constants.                                                      *)

\* store.ts: defaultSelection's scale = 0.15
DefaultSelectionScale == Q(15, 100)
\* TextureSelector.tsx: BASE_PIXELS_PER_MM = 0.3
BASE_PIXELS_PER_MM == Q(3, 10)
\* TextureSelector.tsx: maxWidth = window.innerWidth * 0.94, maxHeight = innerHeight * 0.55
ViewportWidthShare == Q(94, 100)
ViewportHeightShare == Q(55, 100)
\* the zoom buttons step by 0.25 inside [0.5, 3]
ZoomStep == Q(1, 4)
ZoomMin == Q(1, 2)
ZoomMax == QInt(3)
MIN_CANVAS_WIDTH == 1600
MIN_CANVAS_HEIGHT == 1200
MAX_TEXTURE_SIZE == 4096
\* the defaults of the calibration inputs: parseInt(value) || 9600, || 2028
SlabWidthFallback == 9600
SlabHeightFallback == 2028

\* SELECTION_BOXES, in array order
SELECTION_BOXES == <<"top", "left", "right">>
Surfaces == {"top", "left", "right"}

defaultDimensions == [length |-> 2440, width |-> 1234, height |-> 880, thickness |-> 20]

defaultSlabDimensions == [width |-> 9060, height |-> 2020]

\* store.ts defaultSelection(width, height); aspectRatio is never read by the
\* selector or the extraction and is left out of the record
defaultSelection(width, height) ==
    [x |-> QInt(10), y |-> QInt(10),
     width |-> QMul(QInt(width), DefaultSelectionScale),
     height |-> QMul(QInt(height), DefaultSelectionScale),
     rotation |-> 0, flipH |-> FALSE, flipV |-> FALSE]

\* the three selections the store builds from island dimensions
defaultSelections(d) ==
    [top |-> defaultSelection(d.length, d.width),
     left |-> defaultSelection(d.width, d.height),
     right |-> defaultSelection(d.width, d.height)]


-----------------------------------------------------------------------------
(* The inputs of the environment.                                          *)

\* decoded source images (img.width, img.height); NoImage stands for null
NoImage == [width |-> 0, height |-> 0]
Images == {[width |-> 4000, height |-> 2000]}

\* window.innerWidth / window.innerHeight when an image finishes loading
Viewports == {[innerWidth |-> 3200, innerHeight |-> 2400]}

\* values typed into the calibration inputs, after parseInt; NaN stands for
\* a text parseInt cannot read
Typed(n) == [isNaN |-> FALSE, n |-> n]
NaN == [isNaN |-> TRUE, n |-> 0]
SlabInputs == {NaN, Typed(1510), Typed(-1510)}
\* values typed into the island dimension inputs, after parseInt
DimensionInputs == {NaN, Typed(0), Typed(2100)}
DimensionKeys == {"length", "width", "height", "thickness"}

\* the canvas' bounding client rect and the pointer positions of mouse events
Rects == {[left |-> 8, top |-> 40]}
Pointers == {[clientX |-> 58, clientY |-> 90],
             [clientX |-> 5000, clientY |-> 5000],
             [clientX |-> -700, clientY |-> -700]}

\* at most this many image loads of the selector are pending at once
MaxPendingLoads == 2
\* a behaviour of the model holds at most this many user input events
MaxEvents == 5
\* the pan offset is kept within this many pixels in the model
MaxPan == 6000

-----------------------------------------------------------------------------
(* State.                                                                  *)

VARIABLES
    loadedImage,      \* store: the source image, NoImage for null
    slabDimensions,   \* store: calibration, mm
    islandDimensions, \* store: island dimensions, mm
    selections,       \* store: surface -> selection
    appliedTextures,  \* store: surface -> texture
    selectorOpen,     \* store
    selectorPan,      \* store
    cachedImage,      \* selector: cachedImageRef.current
    pendingLoads,     \* selector: images whose onload has not run yet
    applies,          \* selector: handleApplyTextures calls awaiting their extractions
    isDragging,       \* selector: "none" for null, else the dragged surface
    isPanning,        \* selector
    dragOffset,       \* selector
    panStart,         \* selector
    canvasSize,       \* selector
    baseCanvasSize,   \* selector
    imageZoom,        \* selector
    selectedSurface,  \* selector: "none" for null
    events,           \* number of user input events handled so far
    probe             \* the last call of a pure function under test, with its result

vars == <<loadedImage, slabDimensions, islandDimensions, selections,
          appliedTextures, selectorOpen, selectorPan, cachedImage,
          pendingLoads, applies, isDragging, isPanning, dragOffset, panStart,
          canvasSize, baseCanvasSize, imageZoom, selectedSurface, events, probe>>

\* the program's own state
programVars == <<loadedImage, slabDimensions, islandDimensions, selections,
                 appliedTextures, selectorOpen, selectorPan, cachedImage,
                 pendingLoads, applies, isDragging, isPanning, dragOffset, panStart,
                 canvasSize, baseCanvasSize, imageZoom, selectedSurface>>

storeVars == <<loadedImage, slabDimensions, islandDimensions, selections,
               appliedTextures, selectorOpen, selectorPan>>
gestureVars == <<isDragging, isPanning, dragOffset, panStart>>
canvasVars == <<canvasSize, baseCanvasSize, imageZoom>>

NoTexture == [kind |-> "null"]

\* the store's initial state and the selector's state after its first render
InitProgram ==
    /\ loadedImage = NoImage
    /\ slabDimensions = defaultSlabDimensions
    /\ islandDimensions = defaultDimensions
    /\ selections = defaultSelections(defaultDimensions)
    /\ appliedTextures = [s \in Surfaces |-> NoTexture]
    /\ selectorOpen = FALSE
    /\ selectorPan = [x |-> QZero, y |-> QZero]
    /\ cachedImage = NoImage
    /\ pendingLoads = {}
    /\ applies = {}
    /\ isDragging = "none"
    /\ isPanning = FALSE
    /\ dragOffset = [x |-> QZero, y |-> QZero]
    /\ panStart = [x |-> QZero, y |-> QZero]
    /\ canvasSize = [width |-> QInt(MIN_CANVAS_WIDTH), height |-> QInt(MIN_CANVAS_HEIGHT)]
    /\ baseCanvasSize = [width |-> QInt(MIN_CANVAS_WIDTH), height |-> QInt(MIN_CANVAS_HEIGHT)]
    /\ imageZoom = QInt(1)
    /\ selectedSurface = "none"

Init ==
    /\ InitProgram
    /\ events = 0
    /\ probe = [op |-> "none"]

-----------------------------------------------------------------------------
(* The selector's effects.  An effect runs after the render that follows   *)
(* a state change and before the next event is handled, so each handler    *)
(* below includes the effects its state changes trigger.                   *)

\* img.onload: the base canvas for a calibration and a viewport
BaseCanvasFor(slab, vp) ==
    LET baseWidth == QMul(QInt(slab.width), BASE_PIXELS_PER_MM)
        baseHeight == QMul(QInt(slab.height), BASE_PIXELS_PER_MM)
        maxWidth == QMul(QInt(vp.innerWidth), ViewportWidthShare)
        maxHeight == QMul(QInt(vp.innerHeight), ViewportHeightShare)
        scale1 == IF QLt(maxWidth, baseWidth)
                  THEN QDiv(maxWidth, QInt(slab.width))
                  ELSE BASE_PIXELS_PER_MM
        scale == IF QLt(maxHeight, QMul(baseHeight, QDiv(scale1, BASE_PIXELS_PER_MM)))
                 THEN QDiv(maxHeight, QInt(slab.height))
                 ELSE scale1
    IN  [width |-> QMul(QInt(slab.width), scale),
         height |-> QMul(QInt(slab.height), scale)]

\* useEffect [imageZoom, baseCanvasSize]: canvasSize = baseCanvasSize * imageZoom
ZoomedCanvas(base, zoom) ==
    [width |-> QMul(base.width, zoom), height |-> QMul(base.height, zoom)]

\* a resize effect that leaves the selections as they are
KeptSelections(sels, cached, canvas, slab, island) == sels

\* useEffect [canvasSize, slabDimensions, islandDimensions]: the selections
\* resized to the physical dimensions
ResizedSelections(sels, cached, canvas, slab, island) ==
    IF cached = NoImage \/ canvas.width = QZero THEN sels
    ELSE LET mmToCanvasScale == QDiv(canvas.width, QInt(slab.width))
             topWidth == QMul(QInt(island.length), mmToCanvasScale)
             topHeight == QMul(QInt(island.width), mmToCanvasScale)
             sideWidth == QMul(QInt(island.width), mmToCanvasScale)
             sideHeight == QMul(QInt(island.height), mmToCanvasScale)
         IN  [s \in Surfaces |->
                IF s = "top"
                THEN [sels[s] EXCEPT !.width = topWidth, !.height = topHeight]
                ELSE [sels[s] EXCEPT !.width = sideWidth, !.height = sideHeight]]

\* useEffect [loadedImage, slabDimensions]: the image load it starts
LoadStarted(image, slab, zoom) == [img |-> image, slab |-> slab, zoom |-> zoom]

-----------------------------------------------------------------------------
(* Image source and calibration.                                           *)

\* store.setLoadedImage, then the effect [loadedImage, slabDimensions]
SetLoadedImage(image) ==
    /\ image # loadedImage
    /\ loadedImage' = image
    /\ IF image = NoImage
       THEN /\ cachedImage' = NoImage
            /\ UNCHANGED pendingLoads
       ELSE /\ Cardinality(pendingLoads \cup {LoadStarted(image, slabDimensions, imageZoom)})
                 <= MaxPendingLoads
            /\ pendingLoads' = pendingLoads \cup {LoadStarted(image, slabDimensions, imageZoom)}
            /\ UNCHANGED cachedImage
    /\ UNCHANGED <<slabDimensions, islandDimensions, selections, appliedTextures, applies,
                   selectorOpen, selectorPan, gestureVars, canvasVars, selectedSurface>>

\* img.onload of a pending load, then the zoom and resize effects
ImgOnload(p, vp) ==
    /\ p \in pendingLoads
    /\ pendingLoads' = pendingLoads \ {p}
    /\ cachedImage' = p.img
    /\ baseCanvasSize' = BaseCanvasFor(p.slab, vp)
    /\ canvasSize' = ZoomedCanvas(baseCanvasSize', imageZoom)
    /\ selections' = ResizedSelections(selections, cachedImage', canvasSize',
                                       slabDimensions, islandDimensions)
    /\ UNCHANGED <<loadedImage, slabDimensions, islandDimensions, appliedTextures, applies,
                   selectorOpen, selectorPan, gestureVars, imageZoom, selectedSurface>>

\* parseInt(e.target.value) || fallback
ParsedOr(value, fallback) == IF value.isNaN \/ value.n = 0 THEN fallback ELSE value.n

\* the calibration inputs' onChange: setSlabDimensions, then the image effect
\* and the resize effect
SlabChange(key, value) ==
    /\ selectorOpen
    /\ slabDimensions' =
         IF key = "width"
         THEN [slabDimensions EXCEPT !.width = ParsedOr(value, SlabWidthFallback)]
         ELSE [slabDimensions EXCEPT !.height = ParsedOr(value, SlabHeightFallback)]
    /\ IF loadedImage = NoImage
       THEN /\ cachedImage' = NoImage
            /\ UNCHANGED pendingLoads
       ELSE /\ Cardinality(pendingLoads \cup {LoadStarted(loadedImage, slabDimensions', imageZoom)})
                 <= MaxPendingLoads
            /\ pendingLoads' = pendingLoads \cup {LoadStarted(loadedImage, slabDimensions', imageZoom)}
            /\ UNCHANGED cachedImage
    /\ selections' = ResizedSelections(selections, cachedImage', canvasSize,
                                       slabDimensions', islandDimensions)
    /\ UNCHANGED <<loadedImage, islandDimensions, appliedTextures, applies, selectorOpen,
                   selectorPan, gestureVars, canvasVars, selectedSurface>>

\* ControlPanel.handleDimensionChange, store.setIslandDimensions, then the
\* resize effect
DimensionChange(key, value) ==
    /\ IF ~value.isNaN /\ value.n > 0
       THEN /\ islandDimensions' = [islandDimensions EXCEPT ![key] = value.n]
            /\ selections' = ResizedSelections(defaultSelections(islandDimensions'),
                                 cachedImage, canvasSize, slabDimensions, islandDimensions')
       ELSE UNCHANGED <<islandDimensions, selections>>
    /\ UNCHANGED <<loadedImage, slabDimensions, appliedTextures, selectorOpen,
                   selectorPan, cachedImage, pendingLoads, applies, gestureVars, canvasVars,
                   selectedSurface>>


-----------------------------------------------------------------------------
(* Rotation and flip of the selected surface.                              *)

\* a rotation step that does not wrap at 360
RotatedUnwrapped(selection, direction) ==
    [selection EXCEPT !.rotation = IF direction = "cw" THEN @ + 90 ELSE @ - 90]

\* a rotation step of an eighth of a turn
RotatedByEighth(selection, direction) ==
    [selection EXCEPT !.rotation = IF direction = "cw" THEN (@ + 45) % 360
                                    ELSE (@ - 45 + 360) % 360]

\* rotateSelection: the selection it writes
Rotated(selection, direction) ==
    LET currentRotation == selection.rotation
        newRotation == IF direction = "cw"
                       THEN (currentRotation + 90) % 360
                       ELSE (currentRotation - 90 + 360) % 360
    IN  [selection EXCEPT !.rotation = newRotation]

\* a flip that sets the flag instead of toggling it
FlippedOneWay(selection, direction) ==
    IF direction = "horizontal"
    THEN [selection EXCEPT !.flipH = TRUE]
    ELSE [selection EXCEPT !.flipV = TRUE]

\* a flip that also turns the selection back upright
FlippedUpright(selection, direction) ==
    IF direction = "horizontal"
    THEN [selection EXCEPT !.flipH = ~selection.flipH, !.rotation = 0]
    ELSE [selection EXCEPT !.flipV = ~selection.flipV, !.rotation = 0]

\* flipSelection: the selection it writes
Flipped(selection, direction) ==
    IF direction = "horizontal"
    THEN [selection EXCEPT !.flipH = ~selection.flipH]
    ELSE [selection EXCEPT !.flipV = ~selection.flipV]

\* an update that writes the selection to every surface
updateEverySelection(sels, surface, selection) == [s \in Surfaces |-> selection]

\* store.updateSelection(surface, selection)
updateSelection(sels, surface, selection) == [sels EXCEPT ![surface] = selection]

\* the rotate buttons, shown while the dialog is open and a surface is selected
RotateSelection(direction) ==
    /\ selectorOpen
    /\ selectedSurface # "none"
    /\ selections' = updateSelection(selections, selectedSurface,
                                     Rotated(selections[selectedSurface], direction))
    /\ UNCHANGED <<loadedImage, slabDimensions, islandDimensions, appliedTextures,
                   selectorOpen, selectorPan, cachedImage, pendingLoads, applies, gestureVars,
                   canvasVars, selectedSurface>>

\* the flip buttons
FlipSelection(direction) ==
    /\ selectorOpen
    /\ selectedSurface # "none"
    /\ selections' = updateSelection(selections, selectedSurface,
                                     Flipped(selections[selectedSurface], direction))
    /\ UNCHANGED <<loadedImage, slabDimensions, islandDimensions, appliedTextures,
                   selectorOpen, selectorPan, cachedImage, pendingLoads, applies, gestureVars,
                   canvasVars, selectedSurface>>

-----------------------------------------------------------------------------
(* View zoom.                                                              *)

\* setImageZoom(zoom), then the zoom effect and the resize effect; setting the
\* value imageZoom already has causes no render and no effect
ZoomTo(zoom) ==
    /\ imageZoom' = zoom
    /\ IF zoom = imageZoom
       THEN UNCHANGED <<canvasSize, selections>>
       ELSE /\ canvasSize' = ZoomedCanvas(baseCanvasSize, zoom)
            /\ selections' = ResizedSelections(selections, cachedImage, canvasSize',
                                               slabDimensions, islandDimensions)

ZoomOut ==
    /\ selectorOpen
    /\ ZoomTo(QMax(ZoomMin, QSub(imageZoom, ZoomStep)))
    /\ UNCHANGED <<loadedImage, slabDimensions, islandDimensions, appliedTextures,
                   selectorOpen, selectorPan, cachedImage, pendingLoads, applies, gestureVars,
                   baseCanvasSize, selectedSurface>>

ZoomIn ==
    /\ selectorOpen
    /\ ZoomTo(QMin(ZoomMax, QAdd(imageZoom, ZoomStep)))
    /\ UNCHANGED <<loadedImage, slabDimensions, islandDimensions, appliedTextures,
                   selectorOpen, selectorPan, cachedImage, pendingLoads, applies, gestureVars,
                   baseCanvasSize, selectedSurface>>

\* the Reset View button
ResetViewButton ==
    /\ selectorOpen
    /\ selectorPan' = [x |-> QZero, y |-> QZero]
    /\ ZoomTo(QInt(1))
    /\ selectedSurface' = "none"
    /\ UNCHANGED <<loadedImage, slabDimensions, islandDimensions, appliedTextures,
                   selectorOpen, cachedImage, pendingLoads, applies, gestureVars, baseCanvasSize>>

-----------------------------------------------------------------------------
(* Hit test and pointer handlers.                                          *)

\* Math.cos and Math.sin of rotation degrees, rotation in {0, 90, 180, 270}
CosDeg(rotation) ==
    CASE rotation = 0 -> 1 [] rotation = 90 -> 0 [] rotation = 180 -> -1 [] rotation = 270 -> 0
SinDeg(rotation) ==
    CASE rotation = 0 -> 0 [] rotation = 90 -> 1 [] rotation = 180 -> 0 [] rotation = 270 -> -1

\* Math.cos and Math.sin of -rotation degrees
CosNeg(rotation) ==
    CASE rotation = 0 -> 1 [] rotation = 90 -> 0 [] rotation = 180 -> -1 [] rotation = 270 -> 0
SinNeg(rotation) ==
    CASE rotation = 0 -> 0 [] rotation = 90 -> -1 [] rotation = 180 -> 0 [] rotation = 270 -> 1

\* a hit test that leaves the rotation out
isPointInUnrotatedRect(px, py, selection) ==
    /\ QLe(selection.x, px) /\ QLe(px, QAdd(selection.x, selection.width))
    /\ QLe(selection.y, py) /\ QLe(py, QAdd(selection.y, selection.height))

isPointInRotatedRect(px, py, selection) ==
    LET centerX == QAdd(selection.x, QDiv(selection.width, QInt(2)))
        centerY == QAdd(selection.y, QDiv(selection.height, QInt(2)))
        translatedX == QSub(px, centerX)
        translatedY == QSub(py, centerY)
        c == QInt(CosNeg(selection.rotation))
        sn == QInt(SinNeg(selection.rotation))
        rotatedX == QSub(QMul(translatedX, c), QMul(translatedY, sn))
        rotatedY == QAdd(QMul(translatedX, sn), QMul(translatedY, c))
        halfWidth == QDiv(selection.width, QInt(2))
        halfHeight == QDiv(selection.height, QInt(2))
    IN  QLe(QAbs(rotatedX), halfWidth) /\ QLe(QAbs(rotatedY), halfHeight)

\* a hit test that goes through SELECTION_BOXES from its last entry
LastHitFrom(i, x, y, sels) ==
    IF isPointInRotatedRect(x, y, sels[SELECTION_BOXES[3]]) THEN SELECTION_BOXES[3]
    ELSE IF isPointInRotatedRect(x, y, sels[SELECTION_BOXES[2]]) THEN SELECTION_BOXES[2]
    ELSE IF isPointInRotatedRect(x, y, sels[SELECTION_BOXES[1]]) THEN SELECTION_BOXES[1]
    ELSE "none"

\* the surfaces of SELECTION_BOXES[i..] in order: the first one hit, or "none"
RECURSIVE FirstHitFrom(_, _, _, _)
FirstHitFrom(i, x, y, sels) ==
    IF i > Len(SELECTION_BOXES) THEN "none"
    ELSE IF isPointInRotatedRect(x, y, sels[SELECTION_BOXES[i]]) THEN SELECTION_BOXES[i]
    ELSE FirstHitFrom(i + 1, x, y, sels)

\* pointer position in canvas content coordinates
CanvasX(e, rect) == QSub(QInt(e.clientX - rect.left), selectorPan.x)
CanvasY(e, rect) == QSub(QInt(e.clientY - rect.top), selectorPan.y)

handleMouseDown(e, rect) ==
    /\ selectorOpen
    /\ LET x == CanvasX(e, rect)
           y == CanvasY(e, rect)
           hit == FirstHitFrom(1, x, y, selections)
       IN  IF hit # "none"
           THEN /\ isDragging' = hit
                /\ selectedSurface' = hit
                /\ dragOffset' = [x |-> QSub(x, selections[hit].x),
                                  y |-> QSub(y, selections[hit].y)]
                /\ UNCHANGED <<isPanning, panStart>>
           ELSE /\ isPanning' = TRUE
                /\ panStart' = [x |-> QSub(QInt(e.clientX), selectorPan.x),
                                y |-> QSub(QInt(e.clientY), selectorPan.y)]
                /\ UNCHANGED <<isDragging, selectedSurface, dragOffset>>
    /\ UNCHANGED <<storeVars, cachedImage, pendingLoads, applies, canvasVars>>

\* the position handleMouseMove gives a dragged selection
DragPosition(selection, canvas, x, y, offset) ==
    [x |-> QMax(QZero, QMin(QSub(canvas.width, selection.width), QSub(x, offset.x))),
     y |-> QMax(QZero, QMin(QSub(canvas.height, selection.height), QSub(y, offset.y)))]

handleMouseMove(e, rect) ==
    /\ selectorOpen
    /\ IF isDragging # "none"
       THEN LET selection == selections[isDragging]
                pos == DragPosition(selection, canvasSize, CanvasX(e, rect),
                                    CanvasY(e, rect), dragOffset)
            IN  /\ selections' = updateSelection(selections, isDragging,
                                    [selection EXCEPT !.x = pos.x, !.y = pos.y])
                /\ UNCHANGED selectorPan
       ELSE IF isPanning
       THEN /\ selectorPan' = [x |-> QSub(QInt(e.clientX), panStart.x),
                               y |-> QSub(QInt(e.clientY), panStart.y)]
            /\ QLe(QAbs(selectorPan'.x), QInt(MaxPan))
            /\ QLe(QAbs(selectorPan'.y), QInt(MaxPan))
            /\ UNCHANGED selections
       ELSE UNCHANGED <<selections, selectorPan>>
    /\ UNCHANGED <<loadedImage, slabDimensions, islandDimensions, appliedTextures,
                   selectorOpen, cachedImage, pendingLoads, applies, gestureVars, canvasVars,
                   selectedSurface>>

\* onMouseUp and onMouseLeave
handleMouseUp ==
    /\ selectorOpen
    /\ isDragging' = "none"
    /\ isPanning' = FALSE
    /\ UNCHANGED <<storeVars, cachedImage, pendingLoads, applies, dragOffset, panStart,
                   canvasVars, selectedSurface>>

-----------------------------------------------------------------------------
(* Canvas 2D transforms.  A transform is the linear part <<a, b, c, d>> of *)
(* the current matrix: the point (x, y) is drawn at (a*x + b*y, c*x + d*y) *)
(* from the translated origin.                                             *)

IdentityTransform == <<1, 0, 0, 1>>

MatMul(m, n) ==
    <<m[1] * n[1] + m[2] * n[3], m[1] * n[2] + m[2] * n[4],
      m[3] * n[1] + m[4] * n[3], m[3] * n[2] + m[4] * n[4]>>

\* ctx.scale(sx, sy) and ctx.rotate(rotation * Math.PI / 180) on the matrix m
ctxScale(m, sx, sy) == MatMul(m, <<sx, 0, 0, sy>>)
ctxRotate(m, rotation) ==
    MatMul(m, <<CosDeg(rotation), -SinDeg(rotation), SinDeg(rotation), CosDeg(rotation)>>)

\* where the transform m draws the point v
MatApply(m, v) == <<m[1] * v[1] + m[2] * v[2], m[3] * v[1] + m[4] * v[2]>>

\* the inverse of a transform of determinant 1 or -1
MatInverse(m) ==
    LET det == m[1] * m[4] - m[2] * m[3]
    IN  <<det * m[4], -det * m[2], -det * m[3], det * m[1]>>

\* drawSelectionBox: the transform under which the selection rectangle, its
\* label and its orientation marks are drawn in the preview
drawSelectionBox(selection) ==
    LET rotation == selection.rotation
        flipH == selection.flipH
        flipV == selection.flipV
        t1 == IF flipH THEN ctxScale(IdentityTransform, -1, 1) ELSE IdentityTransform
        t2 == IF flipV THEN ctxScale(t1, 1, -1) ELSE t1
    IN  ctxRotate(t2, rotation)

-----------------------------------------------------------------------------
(* Opening and closing the dialog.                                         *)

\* ControlPanel: the Open Texture Selector button, disabled without an image
OpenSelector ==
    /\ loadedImage # NoImage
    /\ ~selectorOpen
    /\ selectorOpen' = TRUE
    /\ UNCHANGED <<loadedImage, slabDimensions, islandDimensions, selections,
                   appliedTextures, selectorPan, cachedImage, pendingLoads, applies,
                   gestureVars, canvasVars, selectedSurface>>

\* the Cancel button and the dialog's onOpenChange(false)
CloseSelector ==
    /\ selectorOpen
    /\ selectorOpen' = FALSE
    /\ UNCHANGED <<loadedImage, slabDimensions, islandDimensions, selections,
                   appliedTextures, selectorPan, cachedImage, pendingLoads, applies,
                   gestureVars, canvasVars, selectedSurface>>


-----------------------------------------------------------------------------
(* Texture extraction (lib/texture-utils).                                 *)

\* window.devicePixelRatio values of the displays in the model
DevicePixelRatios == {QInt(1), QInt(2)}

calculateOptimalTextureDimensions(width, height, maxSize) ==
    LET aspectRatio == QDiv(width, height)
    IN  IF QLt(QInt(maxSize), width) \/ QLt(QInt(maxSize), height)
        THEN IF QLt(height, width)
             THEN [width |-> maxSize,
                   height |-> QRound(QDiv(QInt(maxSize), aspectRatio))]
             ELSE [width |-> QRound(QMul(QInt(maxSize), aspectRatio)),
                   height |-> maxSize]
        ELSE [width |-> QRound(width), height |-> QRound(height)]

\* createHighResCanvas: the pixel size of the canvas it creates
createHighResCanvas(width, height, dpr) ==
    [width |-> QTrunc(QMul(QInt(width), dpr)),
     height |-> QTrunc(QMul(QInt(height), dpr))]

\* img.onload of extractTextureFromSelection: the bitmap it resolves with,
\* described by its pixel size, the context's scale, the source rectangle
\* drawn into it and the transform of the draw (selection.flipH and
\* selection.flipV are not read)
extractTextureFromSelection(img, selection, canvasWidth, canvasHeight, dpr) ==
    LET scaleX == QDiv(QInt(img.width), canvasWidth)
        scaleY == QDiv(QInt(img.height), canvasHeight)
        srcX == QMul(selection.x, scaleX)
        srcY == QMul(selection.y, scaleY)
        srcW == QMul(selection.width, scaleX)
        srcH == QMul(selection.height, scaleY)
        rotation == selection.rotation % 360
        isRotated90or270 == rotation = 90 \/ rotation = 270
        tex == calculateOptimalTextureDimensions(srcW, srcH, MAX_TEXTURE_SIZE)
        canvas == createHighResCanvas(tex.width, tex.height, dpr)
        centerX == QAdd(srcX, QDiv(srcW, QInt(2)))
        centerY == QAdd(srcY, QDiv(srcH, QInt(2)))
        sampleSrcW == IF isRotated90or270 THEN srcH ELSE srcW
        sampleSrcH == IF isRotated90or270 THEN srcW ELSE srcH
        sampleX == QMax(QZero, QMin(QSub(QInt(img.width), sampleSrcW),
                                    QSub(centerX, QDiv(sampleSrcW, QInt(2)))))
        sampleY == QMax(QZero, QMin(QSub(QInt(img.height), sampleSrcH),
                                    QSub(centerY, QDiv(sampleSrcH, QInt(2)))))
    IN  [kind |-> "png",
         width |-> canvas.width, height |-> canvas.height,
         texWidth |-> tex.width, texHeight |-> tex.height,
         sampleX |-> sampleX, sampleY |-> sampleY,
         sampleSrcW |-> sampleSrcW, sampleSrcH |-> sampleSrcH,
         scale |-> dpr, rotation |-> rotation,
         transform |-> IF rotation # 0 THEN ctxRotate(IdentityTransform, rotation)
                       ELSE IdentityTransform]

\* what the draw of extractTextureFromSelection leaves in pixel (i, j) of the
\* bitmap: the point of the source image shown at the pixel's centre, or
\* nothing where the drawn rectangle does not cover the pixel
drawnPixel(tex, i, j) ==
    LET half == Q(1, 2)
        ux == QDiv(QAdd(QInt(i), half), tex.scale)
        uy == QDiv(QAdd(QInt(j), half), tex.scale)
        cx == Q(tex.texWidth, 2)
        cy == Q(tex.texHeight, 2)
        inv == MatInverse(tex.transform)
        dx == QSub(ux, cx)
        dy == QSub(uy, cy)
        px == QAdd(cx, QAdd(QMul(QInt(inv[1]), dx), QMul(QInt(inv[2]), dy)))
        py == QAdd(cy, QAdd(QMul(QInt(inv[3]), dx), QMul(QInt(inv[4]), dy)))
    IN  IF /\ QLe(QZero, px) /\ QLt(px, QInt(tex.texWidth))
           /\ QLe(QZero, py) /\ QLt(py, QInt(tex.texHeight))
        THEN [kind |-> "image",
              x |-> QAdd(tex.sampleX, QDiv(QMul(px, tex.sampleSrcW), QInt(tex.texWidth))),
              y |-> QAdd(tex.sampleY, QDiv(QMul(py, tex.sampleSrcH), QInt(tex.texHeight)))]
        ELSE [kind |-> "transparent"]

-----------------------------------------------------------------------------
(* Apply.                                                                  *)

\* at most this many handleApplyTextures calls are in flight at once
MaxApplies == 1

\* a selection passed on in zoomed canvas coordinates, not divided by the zoom
unscaledSelection(selection, zoom) == selection

\* handleApplyTextures: the selection it passes for a surface
scaledSelection(selection, zoom) ==
    [selection EXCEPT !.x = QDiv(selection.x, zoom),
                      !.y = QDiv(selection.y, zoom),
                      !.width = QDiv(selection.width, zoom),
                      !.height = QDiv(selection.height, zoom)]

\* handleApplyTextures up to its await: one extraction per surface is started
\* with the arguments read now
ApplyCall ==
    [img |-> loadedImage,
     sel |-> [s \in Surfaces |-> scaledSelection(selections[s], imageZoom)],
     base |-> baseCanvasSize,
     status |-> [s \in Surfaces |-> "pending"],
     texture |-> [s \in Surfaces |-> NoTexture]]

handleApplyTextures ==
    /\ selectorOpen
    /\ loadedImage # NoImage
    /\ cachedImage # NoImage
    /\ Cardinality(applies \cup {ApplyCall}) <= MaxApplies
    /\ applies' = applies \cup {ApplyCall}
    /\ UNCHANGED <<storeVars, cachedImage, pendingLoads, gestureVars, canvasVars,
                   selectedSurface>>

\* an extraction's img.onload runs through and resolves the promise
ExtractionResolves(a, s, dpr) ==
    /\ a \in applies
    /\ a.status[s] = "pending"
    /\ applies' = (applies \ {a}) \cup
         {[a EXCEPT !.status[s] = "resolved",
                    !.texture[s] = extractTextureFromSelection(a.img, a.sel[s],
                                       a.base.width, a.base.height, dpr)]}
    /\ UNCHANGED <<storeVars, cachedImage, pendingLoads, gestureVars, canvasVars,
                   selectedSurface>>

\* an extraction rejects: img.onerror, or an exception caught in img.onload
ExtractionRejects(a, s) ==
    /\ a \in applies
    /\ a.status[s] = "pending"
    /\ applies' = (applies \ {a}) \cup {[a EXCEPT !.status[s] = "rejected"]}
    /\ UNCHANGED <<storeVars, cachedImage, pendingLoads, gestureVars, canvasVars,
                   selectedSurface>>

\* an apply that hands over whatever has resolved once an extraction settles
ApplyResumesEarly(a) ==
    /\ a \in applies
    /\ \E s \in Surfaces : a.status[s] # "pending"
    /\ appliedTextures' = a.texture
    /\ selectorOpen' = FALSE
    /\ applies' = applies \ {a}
    /\ UNCHANGED <<loadedImage, slabDimensions, islandDimensions, selections,
                   selectorPan, cachedImage, pendingLoads, gestureVars, canvasVars,
                   selectedSurface>>

\* Promise.all resolved: the rest of handleApplyTextures
ApplyResumes(a) ==
    /\ a \in applies
    /\ \A s \in Surfaces : a.status[s] = "resolved"
    /\ appliedTextures' = a.texture
    /\ selectorOpen' = FALSE
    /\ applies' = applies \ {a}
    /\ UNCHANGED <<loadedImage, slabDimensions, islandDimensions, selections,
                   selectorPan, cachedImage, pendingLoads, gestureVars, canvasVars,
                   selectedSurface>>

\* Promise.all rejected: the await throws and handleApplyTextures ends there
ApplyThrows(a) ==
    /\ a \in applies
    /\ \E s \in Surfaces : a.status[s] = "rejected"
    /\ applies' = applies \ {a}
    /\ UNCHANGED <<storeVars, cachedImage, pendingLoads, gestureVars, canvasVars,
                   selectedSurface>>

-----------------------------------------------------------------------------
(* The selector as a whole.                                                *)

\* a user input event: one more event of the behaviour
UserEvent(A) == events < MaxEvents /\ A /\ events' = events + 1 /\ UNCHANGED probe
\* a completion the browser delivers: an image load, a promise
Completion(A) == A /\ UNCHANGED <<events, probe>>

\* the selector and the inputs around it
NextSelector ==
    \/ \E image \in Images \cup {NoImage} : UserEvent(SetLoadedImage(image))
    \/ \E p \in pendingLoads, vp \in Viewports : Completion(ImgOnload(p, vp))
    \/ \E key \in {"width", "height"}, value \in SlabInputs : UserEvent(SlabChange(key, value))
    \/ \E key \in DimensionKeys, value \in DimensionInputs : UserEvent(DimensionChange(key, value))
    \/ \E direction \in {"cw", "ccw"} : UserEvent(RotateSelection(direction))
    \/ \E direction \in {"horizontal", "vertical"} : UserEvent(FlipSelection(direction))
    \/ UserEvent(ZoomOut)
    \/ UserEvent(ZoomIn)
    \/ UserEvent(ResetViewButton)
    \/ \E e \in Pointers, rect \in Rects : UserEvent(handleMouseDown(e, rect))
    \/ \E e \in Pointers, rect \in Rects : UserEvent(handleMouseMove(e, rect))
    \/ UserEvent(handleMouseUp)
    \/ UserEvent(OpenSelector)
    \/ UserEvent(CloseSelector)

\* Apply Textures: the click and the completions of its extractions
NextApplying ==
    \/ UserEvent(handleApplyTextures)
    \/ \E a \in applies, s \in Surfaces, dpr \in DevicePixelRatios :
          Completion(ExtractionResolves(a, s, dpr))
    \/ \E a \in applies, s \in Surfaces : Completion(ExtractionRejects(a, s))
    \/ \E a \in applies : Completion(ApplyResumes(a))
    \/ \E a \in applies : Completion(ApplyThrows(a))

Next == NextSelector \/ NextApplying

\* the selector's geometry: every input of the selector, no apply in flight
Spec == Init /\ [][NextSelector]_vars

\* apply: loading an image, opening and closing the dialog, and Apply Textures
\* with its completions; successive applies differ by the image loaded and by
\* the device pixel ratio at each extraction
NextApply ==
    \/ \E image \in Images \cup {NoImage} : UserEvent(SetLoadedImage(image))
    \/ \E p \in pendingLoads, vp \in Viewports : Completion(ImgOnload(p, vp))
    \/ UserEvent(OpenSelector)
    \/ UserEvent(CloseSelector)
    \/ NextApplying

SpecApply == Init /\ [][NextApply]_vars

-----------------------------------------------------------------------------
(* Extraction as a function of its inputs: the selection the selector      *)
(* holds for a surface, passed through handleApplyTextures to              *)
(* extractTextureFromSelection.                                            *)

ExtractImages == {[width |-> 4000, height |-> 2000], [width |-> 9060, height |-> 2020]}
ExtractSlabs == {defaultSlabDimensions,
                 [width |-> SlabWidthFallback, height |-> SlabHeightFallback]}
ExtractIslands == {defaultDimensions, [defaultDimensions EXCEPT !.width = 600]}
ExtractZooms == {ZoomMin, QInt(1), QInt(2)}
ExtractPositions == {[x |-> QInt(10), y |-> QInt(10)], [x |-> QInt(300), y |-> QInt(100)]}
Rotations == {0, 90, 180, 270}

ExtractInputs ==
    [img : ExtractImages, slab : ExtractSlabs, island : ExtractIslands, vp : Viewports,
     zoom : ExtractZooms, surface : Surfaces, position : ExtractPositions,
     rotation : Rotations, flipH : BOOLEAN, flipV : BOOLEAN, dpr : DevicePixelRatios]

\* the selection the selector holds for in.surface: sized by the resize
\* effect, then dragged, rotated and flipped
SelectionOf(in) ==
    LET canvas == ZoomedCanvas(BaseCanvasFor(in.slab, in.vp), in.zoom)
        sized == ResizedSelections(defaultSelections(in.island), in.img, canvas,
                                   in.slab, in.island)[in.surface]
    IN  [sized EXCEPT !.x = in.position.x, !.y = in.position.y,
                      !.rotation = in.rotation, !.flipH = in.flipH, !.flipV = in.flipV]

\* handleApplyTextures for one surface: the bitmap its extraction resolves with
TextureOf(in, selection) ==
    LET base == BaseCanvasFor(in.slab, in.vp)
    IN  extractTextureFromSelection(in.img, scaledSelection(selection, in.zoom),
                                    base.width, base.height, in.dpr)

InitExtract ==
    /\ InitProgram
    /\ events = 0
    /\ \E in \in ExtractInputs : probe = [op |-> "extract", done |-> FALSE, in |-> in]

Extract ==
    /\ probe.op = "extract"
    /\ ~probe.done
    /\ probe' = [op |-> "extract", done |-> TRUE, in |-> probe.in,
                 selection |-> SelectionOf(probe.in),
                 preview |-> drawSelectionBox(SelectionOf(probe.in)),
                 texture |-> TextureOf(probe.in, SelectionOf(probe.in))]
    /\ UNCHANGED <<programVars, events>>

SpecExtract == InitExtract /\ [][Extract]_vars

-----------------------------------------------------------------------------
(* The hit test as a function of its inputs.                               *)

HitSizes == {[width |-> 200, height |-> 100], [width |-> 100, height |-> 100],
             [width |-> 60, height |-> 180]}
HitOrigins == {[x |-> 0, y |-> 50], [x |-> 50, y |-> 0]}
HitCoordinates == {-1, 0, 49, 50, 51, 100, 149, 150, 151, 160, 200, 201}

HitSelections ==
    {[x |-> QInt(o.x), y |-> QInt(o.y), width |-> QInt(sz.width), height |-> QInt(sz.height),
      rotation |-> r, flipH |-> fh, flipV |-> fv] :
        o \in HitOrigins, sz \in HitSizes, r \in Rotations, fh \in BOOLEAN, fv \in BOOLEAN}

InitHit ==
    /\ InitProgram
    /\ events = 0
    /\ \E selection \in HitSelections, px \in HitCoordinates, py \in HitCoordinates :
          probe = [op |-> "hit", done |-> FALSE, selection |-> selection,
                   px |-> px, py |-> py, hit |-> FALSE]

HitTest ==
    /\ probe.op = "hit"
    /\ ~probe.done
    /\ probe' = [probe EXCEPT !.done = TRUE,
                   !.hit = isPointInRotatedRect(QInt(probe.px), QInt(probe.py),
                                                probe.selection)]
    /\ UNCHANGED <<programVars, events>>

SpecHit == InitHit /\ [][HitTest]_vars

-----------------------------------------------------------------------------
(* Properties.                                                             *)

\* the rectangle of a selection lies inside the canvas
InsideCanvas(selection, canvas) ==
    /\ QLe(QZero, selection.x)
    /\ QLe(selection.x, QSub(canvas.width, selection.width))
    /\ QLe(QZero, selection.y)
    /\ QLe(selection.y, QSub(canvas.height, selection.height))

\* C1: every drag update of handleMouseMove leaves the dragged selection at
\* 0 <= x <= canvasWidth - width and 0 <= y <= canvasHeight - height, whatever
\* the pointer position and whatever size the selection has
C1_DragClamped ==
    [][\A e \in Pointers, rect \in Rects :
          (isDragging # "none" /\ handleMouseMove(e, rect))
              => InsideCanvas(selections'[isDragging], canvasSize')]_vars

\* C2: in every reachable state every selection has positive width and height
\* and its rectangle lies inside the current canvas
C2_SelectionsInsideCanvas ==
    \A s \in Surfaces :
        /\ QLt(QZero, selections[s].width)
        /\ QLt(QZero, selections[s].height)
        /\ QLe(QZero, selections[s].x)
        /\ QLe(QZero, selections[s].y)
        /\ QLe(QAdd(selections[s].x, selections[s].width), canvasSize.width)
        /\ QLe(QAdd(selections[s].y, selections[s].height), canvasSize.height)

\* the destination face of a surface in millimetres: the top is length x
\* width, a side is width x height
FaceMm(island, surface) ==
    IF surface = "top"
    THEN [width |-> island.length, height |-> island.width]
    ELSE [width |-> island.width, height |-> island.height]

\* w/h equals a/b up to one pixel of w or of h
RatioWithinOnePixel(w, h, a, b) ==
    \/ Abs(w * b - h * a) <= b
    \/ Abs(w * b - h * a) <= a

\* C3: the bitmap extracted for a face has width/height equal to the face's
\* height/width (swapped) within one pixel when rotation is 90 or 270, and
\* to the face's width/height when rotation is 0 or 180
C3_BitmapAspectFollowsRotation ==
    (probe.op = "extract" /\ probe.done) =>
        LET face == FaceMm(probe.in.island, probe.in.surface)
            tex == probe.texture
        IN  IF probe.in.rotation \in {90, 270}
            THEN RatioWithinOnePixel(tex.width, tex.height, face.height, face.width)
            ELSE RatioWithinOnePixel(tex.width, tex.height, face.width, face.height)

\* the end-to-end scenario: a 4000x2000 image, calibration 9600x2028 mm, the
\* default island and its unrotated top selection
EndToEndScenario(in) ==
    /\ in.img = [width |-> 4000, height |-> 2000]
    /\ in.slab = [width |-> 9600, height |-> 2028]
    /\ in.island = defaultDimensions
    /\ in.surface = "top"
    /\ in.rotation = 0

\* C4: in the end-to-end scenario the top bitmap's width/height is within 1%
\* of 2440/1234
C4_EndToEndAspect ==
    (probe.op = "extract" /\ probe.done /\ EndToEndScenario(probe.in)) =>
        LET w == probe.texture.width
            h == probe.texture.height
        IN  100 * Abs(w * 1234 - h * 2440) <= h * 2440

\* the corners of a rectangle, as directions from its centre
Corners == {<<-1, -1>>, <<1, -1>>, <<1, 1>>, <<-1, 1>>}

\* C5: for every rotation and flip combination the preview draws the four
\* corners of the crop in the orientation the extraction draws them
C5_PreviewMatchesExtraction ==
    (probe.op = "extract" /\ probe.done) =>
        \A corner \in Corners :
            MatApply(probe.preview, corner) = MatApply(probe.texture.transform, corner)

\* pixel columns and rows compared: the first two and the last
SamplePixels(n) == {0, 1, n - 1}

\* C6: with flipH and flipV both set, pixel (i, j) of the extraction with
\* both flips clear appears at (W-1-i, H-1-j) of the extracted bitmap
C6_DoubleFlipIsPointReflection ==
    (probe.op = "extract" /\ probe.done /\ probe.in.flipH /\ probe.in.flipV) =>
        LET noFlip == TextureOf(probe.in, [probe.selection EXCEPT !.flipH = FALSE,
                                                                  !.flipV = FALSE])
            W == probe.texture.width
            H == probe.texture.height
        IN  /\ noFlip.width = W
            /\ noFlip.height = H
            /\ \A i \in SamplePixels(W), j \in SamplePixels(H) :
                  drawnPixel(probe.texture, W - 1 - i, H - 1 - j) = drawnPixel(noFlip, i, j)

\* the distances of the point (px, py) from the centre of the selection and
\* the half extents of its footprint: the rectangle turned by its rotation
\* about its centre, which swaps the extents at 90 and 270
Footprint(px, py, selection) ==
    LET half == Q(1, 2)
        swapped == selection.rotation \in {90, 270}
    IN  [dx |-> QAbs(QSub(QInt(px), QAdd(selection.x, QMul(selection.width, half)))),
         dy |-> QAbs(QSub(QInt(py), QAdd(selection.y, QMul(selection.height, half)))),
         halfX |-> QMul(IF swapped THEN selection.height ELSE selection.width, half),
         halfY |-> QMul(IF swapped THEN selection.width ELSE selection.height, half)]

\* the 200x100 rectangle centred at (100, 100), turned by 90
NamedRect(selection) ==
    /\ selection.x = QInt(0) /\ selection.y = QInt(50)
    /\ selection.width = QInt(200) /\ selection.height = QInt(100)
    /\ selection.rotation = 90

\* C7: isPointInRotatedRect hits every point inside the rotated footprint and
\* no point outside it, whatever flipH and flipV are; the centre is a hit; for
\* the 200x100 rectangle centred at (100,100) turned by 90, (100,160) is
\* a hit and (160,100) is not
C7_HitTestIsRotatedFootprint ==
    (probe.op = "hit" /\ probe.done) =>
        LET f == Footprint(probe.px, probe.py, probe.selection)
        IN  /\ (QLt(f.dx, f.halfX) /\ QLt(f.dy, f.halfY)) => probe.hit
            /\ (QLt(f.halfX, f.dx) \/ QLt(f.halfY, f.dy)) => ~probe.hit
            /\ (f.dx = QZero /\ f.dy = QZero) => probe.hit
            /\ (NamedRect(probe.selection) /\ probe.px = 100 /\ probe.py = 160) => probe.hit
            /\ (NamedRect(probe.selection) /\ probe.px = 160 /\ probe.py = 100) => ~probe.hit

\* the named rectangle, flipped both ways, tested at (100, 160) and hit
C7_Witness ==
    /\ probe.op = "hit" /\ probe.done
    /\ NamedRect(probe.selection)
    /\ probe.selection.flipH /\ probe.selection.flipV
    /\ probe.px = 100 /\ probe.py = 160
    /\ probe.hit

\* C8: a rotate step adds 90 (cw) or subtracts 90 (ccw) modulo 360; from the
\* rotation of any surface four clockwise steps lead back to it, and a
\* clockwise step followed by a counter-clockwise step leaves it unchanged
C8_RotationCycle ==
    \A s \in Surfaces :
        LET selection == selections[s]
            cw == Rotated(selection, "cw")
            ccw == Rotated(selection, "ccw")
        IN  /\ selection.rotation \in Rotations
            /\ cw.rotation \in Rotations /\ (cw.rotation - selection.rotation) % 360 = 90
            /\ ccw.rotation \in Rotations /\ (selection.rotation - ccw.rotation) % 360 = 90
            /\ Rotated(Rotated(Rotated(cw, "cw"), "cw"), "cw") = selection
            /\ Rotated(cw, "ccw") = selection

\* the selected surface has been rotated three quarters of the way round
C8_Witness ==
    /\ selectorOpen
    /\ selectedSurface # "none"
    /\ selections[selectedSurface].rotation = 270

\* C9: the same flip applied twice to a surface gives back its selection, and
\* flipping horizontally then vertically gives what vertically then
\* horizontally gives
C9_FlipToggle ==
    \A s \in Surfaces :
        LET selection == selections[s]
        IN  /\ \A direction \in {"horizontal", "vertical"} :
                  /\ Flipped(selection, direction) # selection
                  /\ Flipped(Flipped(selection, direction), direction) = selection
            /\ Flipped(Flipped(selection, "horizontal"), "vertical")
                 = Flipped(Flipped(selection, "vertical"), "horizontal")

\* the selected surface has been flipped both ways
C9_Witness ==
    /\ selectorOpen
    /\ selectedSurface # "none"
    /\ selections[selectedSurface].flipH
    /\ selections[selectedSurface].flipV

\* C10: appliedTextures is written only with the three textures of an apply
\* whose extractions have all resolved, and the step that ends an apply with a
\* rejected extraction leaves appliedTextures as it was and the selector open
C10_ApplyAllOrNothing ==
    [][
        /\ (appliedTextures' # appliedTextures) =>
              (\E a \in applies :
                  /\ \A s \in Surfaces : a.status[s] = "resolved"
                  /\ appliedTextures' = a.texture)
        /\ \A b \in applies :
              ((\E s \in Surfaces : b.status[s] = "rejected") /\ b \notin applies') =>
                  (appliedTextures' = appliedTextures /\ selectorOpen' = selectorOpen)
      ]_vars

\* an apply has one extraction rejected and another resolved, the selector is
\* open and no texture has been applied
C10_Witness ==
    /\ selectorOpen
    /\ \A s \in Surfaces : appliedTextures[s] = NoTexture
    /\ \E a \in applies :
          /\ \E s \in Surfaces : a.status[s] = "rejected"
          /\ \E s \in Surfaces : a.status[s] = "resolved"

\* C11: the rectangle extractTextureFromSelection samples lies inside the
\* source image, at its full requested size, for every selection and rotation
C11_SampleInsideImage ==
    (probe.op = "extract" /\ probe.done) =>
        LET tex == probe.texture
            img == probe.in.img
        IN  /\ QLe(QZero, tex.sampleX)
            /\ QLe(QAdd(tex.sampleX, tex.sampleSrcW), QInt(img.width))
            /\ QLe(QZero, tex.sampleY)
            /\ QLe(QAdd(tex.sampleY, tex.sampleSrcH), QInt(img.height))


\* the source size (srcW, srcH) an extraction was asked for, recovered from
\* the sampled rectangle
RequestedSource(tex) ==
    IF tex.rotation \in {90, 270}
    THEN [width |-> tex.sampleSrcH, height |-> tex.sampleSrcW]
    ELSE [width |-> tex.sampleSrcW, height |-> tex.sampleSrcH]

\* w differs by at most one pixel from h * ratio
WithinOnePixelOf(w, h, ratio) ==
    /\ QLe(Q(w - 1, h), ratio)
    /\ QLe(ratio, Q(w + 1, h))

\* C12: the bitmap extractTextureFromSelection serializes has its larger side
\* at most MAX_TEXTURE_SIZE and keeps the width/height ratio of the requested
\* source size up to one pixel of rounding
C12_BitmapWithinMaxTextureSize ==
    (probe.op = "extract" /\ probe.done) =>
        LET tex == probe.texture
            src == RequestedSource(tex)
        IN  /\ tex.width <= MAX_TEXTURE_SIZE
            /\ tex.height <= MAX_TEXTURE_SIZE
            /\ tex.width > 0
            /\ tex.height > 0
            /\ \/ WithinOnePixelOf(tex.width, tex.height, QDiv(src.width, src.height))
               \/ WithinOnePixelOf(tex.height, tex.width, QDiv(src.height, src.width))


\* the image effect has completed for the current image and calibration: no
\* load is pending and the base canvas is the one img.onload computes for
\* slabDimensions
CalibrationSettled ==
    /\ loadedImage # NoImage
    /\ cachedImage = loadedImage
    /\ pendingLoads = {}
    /\ \E vp \in Viewports : baseCanvasSize = BaseCanvasFor(slabDimensions, vp)

\* the source rectangle size handleApplyTextures would extract for a surface
\* in the current state
ExtractedSource(s) ==
    RequestedSource(extractTextureFromSelection(loadedImage,
                        scaledSelection(selections[s], imageZoom),
                        baseCanvasSize.width, baseCanvasSize.height, QInt(1)))

\* C13: at every zoom level, once the effects have run, the source rectangle
\* extracted for each surface is faceMm * imagePx / slabMm, whatever the zoom
C13_ZoomKeepsCutSizes ==
    CalibrationSettled =>
        \A s \in Surfaces :
            LET face == FaceMm(islandDimensions, s)
            IN  /\ ExtractedSource(s).width =
                       Q(face.width * loadedImage.width, slabDimensions.width)
                /\ ExtractedSource(s).height =
                       Q(face.height * loadedImage.height, slabDimensions.height)

C13_Witness ==
    /\ CalibrationSettled
    /\ imageZoom = Q(3, 2)
    /\ slabDimensions # defaultSlabDimensions


\* C14: once an image is loaded and the resize effect has run, the top
\* selection's width is islandDimensions.length * canvasSize.width /
\* slabDimensions.width within one pixel, after any sequence of calibration
\* and dimension changes
C14_TopWidthFollowsCalibration ==
    cachedImage # NoImage =>
        LET pixelsPerMm == QDiv(canvasSize.width, QInt(slabDimensions.width))
            expected == QMul(QInt(islandDimensions.length), pixelsPerMm)
        IN  QLe(QAbs(QSub(selections["top"].width, expected)), QInt(1))

C14_Witness ==
    /\ cachedImage # NoImage
    /\ slabDimensions.width = 1510
    /\ islandDimensions.length = 2100
    /\ selections["top"].width # defaultSelections(islandDimensions)["top"].width


\* a gesture is in progress: a mouse-down has set a flag that no mouse-up or
\* mouse-leave has cleared yet
GestureInProgress == isDragging # "none" \/ isPanning

\* C15: isDragging # null and isPanning never hold together, and while a
\* gesture is in progress its kind and its dragged surface only change by
\* ending the gesture
C15_DragXorPan ==
    [][/\ ~(isDragging' # "none" /\ isPanning')
       /\ GestureInProgress =>
             \/ isDragging' = isDragging /\ isPanning' = isPanning
             \/ isDragging' = "none" /\ isPanning' = FALSE]_vars


\* C16: every island dimension field and both calibration fields are > 0 in
\* every reachable state
C16_StoredDimensionsPositive ==
    /\ \A key \in DimensionKeys : islandDimensions[key] > 0
    /\ slabDimensions.width > 0
    /\ slabDimensions.height > 0


\* a selection as defaultSelection leaves it, apart from its size
FreshDefault(selection) ==
    /\ selection.x = QInt(10)
    /\ selection.y = QInt(10)
    /\ selection.rotation = 0
    /\ ~selection.flipH
    /\ ~selection.flipV

\* C17: every step that changes islandDimensions or slabDimensions leaves all
\* selections as fresh defaults, discarding position, rotation and flip edits
C17_SelectionsReplacedOnChange ==
    [][(islandDimensions' # islandDimensions \/ slabDimensions' # slabDimensions)
          => \A s \in Surfaces : FreshDefault(selections'[s])]_vars


\* C18: in every reachable state every selection's rotation is 0, 90, 180 or
\* 270
C18_RotationIsQuarterTurn ==
    \A s \in Surfaces : selections[s].rotation \in Rotations

\* a rotated selection that the resize effect has resized after a calibration
\* change
C18_Witness ==
    /\ cachedImage # NoImage
    /\ slabDimensions # defaultSlabDimensions
    /\ \E s \in Surfaces : selections[s].rotation = 90


-----------------------------------------------------------------------------
(* The base canvas and the scale legend as functions of the calibration,   *)
(* the viewport and the zoom.                                              *)

\* drawScaleRuler(ctx, width, height): the legend it draws, by the labelled
\* length in mm, the pixel length of the bar and the px-per-mm figure of the
\* "Scale: 1mm = ...px" text
drawScaleRuler(width, height) ==
    LET rulerWidth == QInt(200)
        mmRepresented == QDiv(rulerWidth, BASE_PIXELS_PER_MM)
        scaleUnit == IF QLt(mmRepresented, QInt(500)) THEN 100
                     ELSE IF QLt(mmRepresented, QInt(1000)) THEN 500
                     ELSE 1000
    IN  [scaleUnit |-> scaleUnit,
         scalePixels |-> QMul(QInt(scaleUnit), BASE_PIXELS_PER_MM),
         pixelsPerMm |-> BASE_PIXELS_PER_MM]

CanvasSlabWidths == {9060, SlabWidthFallback, 1510, -1510}
CanvasSlabHeights == {2020, SlabHeightFallback, 1510, -1510}
CanvasViewportWidths == {1280, 1920, 3200}
CanvasViewportHeights == {720, 1080, 2400}

InitCanvas ==
    /\ InitProgram
    /\ events = 0
    /\ \E w \in CanvasSlabWidths, h \in CanvasSlabHeights, vw \in CanvasViewportWidths,
          vh \in CanvasViewportHeights, zoom \in ExtractZooms :
          probe = [op |-> "canvas", done |-> FALSE,
                   slab |-> [width |-> w, height |-> h],
                   vp |-> [innerWidth |-> vw, innerHeight |-> vh],
                   zoom |-> zoom]

\* img.onload for the calibration and viewport of the probe, the zoom effect
\* and the legend drawCanvas then draws
ComputeCanvas ==
    /\ probe.op = "canvas"
    /\ ~probe.done
    /\ LET base == BaseCanvasFor(probe.slab, probe.vp)
           canvas == ZoomedCanvas(base, probe.zoom)
       IN  probe' = [op |-> "canvas", done |-> TRUE, slab |-> probe.slab, vp |-> probe.vp,
                     zoom |-> probe.zoom, base |-> base, canvas |-> canvas,
                     ruler |-> drawScaleRuler(canvas.width, canvas.height)]
    /\ UNCHANGED <<programVars, events>>

SpecCanvas == InitCanvas /\ [][ComputeCanvas]_vars

\* C19: the base canvas computed on image load is the calibration times
\* scale = min(0.3, maxWidth / slabWidth, maxHeight / slabHeight), with
\* maxWidth = 0.94 * innerWidth and maxHeight = 0.55 * innerHeight; it does
\* not exceed maxWidth x maxHeight and has the calibration's width/height
C19_BaseCanvasFitsViewport ==
    (probe.op = "canvas" /\ probe.done) =>
        LET maxWidth == QMul(QInt(probe.vp.innerWidth), ViewportWidthShare)
            maxHeight == QMul(QInt(probe.vp.innerHeight), ViewportHeightShare)
            scale == QMin(BASE_PIXELS_PER_MM,
                          QMin(QDiv(maxWidth, QInt(probe.slab.width)),
                               QDiv(maxHeight, QInt(probe.slab.height))))
        IN  /\ probe.base.width = QMul(QInt(probe.slab.width), scale)
            /\ probe.base.height = QMul(QInt(probe.slab.height), scale)
            /\ QLe(probe.base.width, maxWidth)
            /\ QLe(probe.base.height, maxHeight)
            /\ QMul(probe.base.width, QInt(probe.slab.height))
                   = QMul(probe.base.height, QInt(probe.slab.width))

\* C20: the legend reports the base calibration scale: the px-per-mm figure
\* it prints and the bar length per labelled mm are baseCanvasSize.width /
\* slabDimensions.width
C20_LegendShowsBaseScale ==
    (probe.op = "canvas" /\ probe.done) =>
        LET baseScale == QDiv(probe.base.width, QInt(probe.slab.width))
        IN  /\ probe.ruler.pixelsPerMm = baseScale
            /\ probe.ruler.scalePixels = QMul(QInt(probe.ruler.scaleUnit), baseScale)


-----------------------------------------------------------------------------
(* Further properties of the extraction and of the selector.               *)

\* the same extraction call made on a display with another devicePixelRatio
SecondCall(in, selection, dpr) == TextureOf([in EXCEPT !.dpr = dpr], selection)

\* C21: a second call of extractTextureFromSelection with the same image,
\* selection and canvas size gives a bitmap of the same dimensions and the
\* same pixels, whatever display it is made on
C21_ExtractionDeterministic ==
    (probe.op = "extract" /\ probe.done) =>
        \A dpr \in DevicePixelRatios :
            LET again == SecondCall(probe.in, probe.selection, dpr)
                W == probe.texture.width
                H == probe.texture.height
            IN  /\ again.width = W
                /\ again.height = H
                /\ \A i \in SamplePixels(W), j \in SamplePixels(H) :
                      drawnPixel(again, i, j) = drawnPixel(probe.texture, i, j)


\* C22: an apply whose selector was closed while its extractions were in
\* flight does not change appliedTextures: no step taken with the selector
\* closed writes appliedTextures
C22_ClosedSelectorDiscardsApply ==
    [][~selectorOpen => appliedTextures' = appliedTextures]_vars


\* the surfaces whose selection contains the point a mouse-down is at
SurfacesHit(e, rect) ==
    {s \in Surfaces : isPointInRotatedRect(CanvasX(e, rect), CanvasY(e, rect), selections[s])}

\* C23: a mouse-down starts a drag on the first surface hit in the order top,
\* left, right, and starts a pan if and only if no surface is hit
C23_FirstHitIsDragged ==
    [][\A e \in Pointers, rect \in Rects :
          handleMouseDown(e, rect) =>
              LET hits == SurfacesHit(e, rect)
              IN  /\ "top" \in hits => isDragging' = "top"
                  /\ ("top" \notin hits /\ "left" \in hits) => isDragging' = "left"
                  /\ (hits = {"right"}) => isDragging' = "right"
                  /\ hits # {} => UNCHANGED <<isPanning, panStart>>
                  /\ hits = {} => (isPanning' /\ UNCHANGED isDragging)]_vars

\* a drag of the top selection started where the left selection lies under
\* the pointer as well
C23_Witness ==
    /\ isDragging = "top"
    /\ ~isPanning
    /\ isPointInRotatedRect(QAdd(selections["top"].x, dragOffset.x),
                            QAdd(selections["top"].y, dragOffset.y), selections["left"])


\* C24: a move during a drag changes only x and y of the dragged surface; a
\* move during a pan changes only selectorPan, to the pointer position minus
\* panStart; a move with no gesture changes nothing
C24_MoveFrame ==
    [][\A e \in Pointers, rect \in Rects :
          handleMouseMove(e, rect) =>
              IF isDragging # "none"
              THEN /\ selections' = [selections EXCEPT
                                       ![isDragging].x = selections'[isDragging].x,
                                       ![isDragging].y = selections'[isDragging].y]
                   /\ UNCHANGED <<selectorPan, appliedTextures, slabDimensions,
                                  islandDimensions, loadedImage, gestureVars, canvasVars,
                                  selectedSurface>>
              ELSE IF isPanning
              THEN /\ selectorPan' = [x |-> QSub(QInt(e.clientX), panStart.x),
                                      y |-> QSub(QInt(e.clientY), panStart.y)]
                   /\ UNCHANGED <<selections, appliedTextures, slabDimensions,
                                  islandDimensions, loadedImage, gestureVars, canvasVars,
                                  selectedSurface>>
              ELSE UNCHANGED programVars]_vars

\* a drag has moved the top selection, turned a quarter, away from where the
\* other two still are
C24_Witness ==
    /\ isDragging = "top"
    /\ selections["top"].rotation = 90
    /\ selections["top"].x # QInt(10)
    /\ selections["left"].x = QInt(10)


\* C25: a rotate step changes only the rotation of the selected surface, a
\* flip step only the addressed flag of the selected surface, and rotating
\* then flipping a selection gives what flipping then rotating gives
C25_RotationAndFlipsIndependent ==
    [][/\ \A direction \in {"cw", "ccw"} :
             RotateSelection(direction) =>
                 /\ selections' = [selections EXCEPT ![selectedSurface].rotation =
                                       selections'[selectedSurface].rotation]
                 /\ selections'[selectedSurface].rotation # selections[selectedSurface].rotation
       /\ FlipSelection("horizontal") =>
             selections' = [selections EXCEPT ![selectedSurface].flipH = ~@]
       /\ FlipSelection("vertical") =>
             selections' = [selections EXCEPT ![selectedSurface].flipV = ~@]
       /\ \A s \in Surfaces, r \in {"cw", "ccw"}, f \in {"horizontal", "vertical"} :
             Flipped(Rotated(selections[s], r), f) = Rotated(Flipped(selections[s], f), r)]_vars

\* a selection both rotated and flipped one way
C25_Witness ==
    \E s \in Surfaces :
        /\ selections[s].rotation = 90
        /\ selections[s].flipH
        /\ ~selections[s].flipV


-----------------------------------------------------------------------------
(* Degenerate sizes: JavaScript division by zero gives Infinity or NaN and *)
(* raises nothing.                                                         *)

\* Infinity, -Infinity and NaN, written as fractions with denominator 0
PositiveInfinity == <<1, 0>>
NegativeInfinity == <<-1, 0>>
NotANumber == <<0, 0>>
NonFinite == {PositiveInfinity, NegativeInfinity, NotANumber}

\* a / b for finite a and b
JsDivide(a, b) ==
    IF b # QZero THEN QDiv(a, b)
    ELSE IF a = QZero THEN NotANumber
    ELSE IF QLt(QZero, a) THEN PositiveInfinity ELSE NegativeInfinity

\* a * s for a finite a and an s that may be Infinity or NaN
JsTimes(a, s) ==
    IF s \notin NonFinite THEN QMul(a, s)
    ELSE IF s = NotANumber \/ a = QZero THEN NotANumber
    ELSE IF QLt(QZero, a) THEN s
    ELSE IF s = PositiveInfinity THEN NegativeInfinity ELSE PositiveInfinity

\* extractTextureFromSelection for a canvas size that may be zero: how the
\* promise settles once the image has loaded, and the source rectangle
\* img.onload computes; no statement of its try block throws on a number
extractionOutcome(img, selection, canvasWidth, canvasHeight) ==
    LET scaleX == JsDivide(QInt(img.width), canvasWidth)
        scaleY == JsDivide(QInt(img.height), canvasHeight)
    IN  [status |-> "resolved",
         srcX |-> JsTimes(selection.x, scaleX),
         srcY |-> JsTimes(selection.y, scaleY),
         srcW |-> JsTimes(selection.width, scaleX),
         srcH |-> JsTimes(selection.height, scaleY)]

\* window sizes, those of a window collapsed to nothing included
DegenerateViewports ==
    {[innerWidth |-> w, innerHeight |-> h] : w \in {0, 3200}, h \in {0, 2400}}

DegenerateInputs ==
    [img : ExtractImages, slab : ExtractSlabs, island : ExtractIslands,
     vp : DegenerateViewports, zoom : ExtractZooms, surface : Surfaces]

InitDegenerate ==
    /\ InitProgram
    /\ events = 0
    /\ \E in \in DegenerateInputs : probe = [op |-> "degenerate", done |-> FALSE, in |-> in]

\* img.onload, the zoom and resize effects, then handleApplyTextures for the
\* surface of the probe
ExtractDegenerate ==
    /\ probe.op = "degenerate"
    /\ ~probe.done
    /\ LET in == probe.in
           base == BaseCanvasFor(in.slab, in.vp)
           canvas == ZoomedCanvas(base, in.zoom)
           sized == ResizedSelections(defaultSelections(in.island), in.img, canvas,
                                      in.slab, in.island)[in.surface]
       IN  probe' = [op |-> "degenerate", done |-> TRUE, in |-> in, base |-> base,
                     selection |-> sized,
                     outcome |-> extractionOutcome(in.img, scaledSelection(sized, in.zoom),
                                                   base.width, base.height)]
    /\ UNCHANGED <<programVars, events>>

SpecDegenerate == InitDegenerate /\ [][ExtractDegenerate]_vars

\* C26: an extraction that is passed a canvas width or height of zero ends in
\* a rejected promise, and no extraction resolves with a source size that is
\* infinite or not a number
C26_DegenerateFailsFast ==
    (probe.op = "degenerate" /\ probe.done) =>
        /\ (probe.base.width = QZero \/ probe.base.height = QZero)
              => probe.outcome.status = "rejected"
        /\ probe.outcome.status = "resolved"
              => (probe.outcome.srcW \notin NonFinite /\ probe.outcome.srcH \notin NonFinite)


-----------------------------------------------------------------------------
(* The view zoom of the selector and the selectorZoom of the store.        *)

SelectorZoomMin == Q(1, 2)
SelectorZoomMax == QInt(4)

\* the numbers setSelectorZoom is called with
ZoomArguments == {NotANumber, PositiveInfinity, NegativeInfinity, QInt(-1), QZero, Q(1, 4), Q(1, 2),
                  Q(3, 4), QInt(2), QInt(4), Q(17, 4), QInt(100)}

\* Math.max(0.5, Math.min(4, zoom)): Math.min and Math.max return NaN when an
\* argument is NaN
clampedSelectorZoom(zoom) ==
    IF zoom = NotANumber THEN NotANumber
    ELSE IF zoom = PositiveInfinity THEN SelectorZoomMax
    ELSE IF zoom = NegativeInfinity THEN SelectorZoomMin
    ELSE QMax(SelectorZoomMin, QMin(SelectorZoomMax, zoom))

InitZoom ==
    /\ InitProgram
    /\ events = 0
    /\ probe = [op |-> "store", selectorZoom |-> QInt(1)]

\* store.setSelectorZoom(zoom)
setSelectorZoom(zoom) ==
    /\ events < MaxEvents
    /\ events' = events + 1
    /\ probe' = [probe EXCEPT !.selectorZoom = clampedSelectorZoom(zoom)]
    /\ UNCHANGED programVars

\* store.resetView()
resetView ==
    /\ events < MaxEvents
    /\ events' = events + 1
    /\ probe' = [probe EXCEPT !.selectorZoom = QInt(1)]
    /\ selectorPan' = [x |-> QZero, y |-> QZero]
    /\ UNCHANGED <<loadedImage, slabDimensions, islandDimensions, selections,
                   appliedTextures, selectorOpen, cachedImage, pendingLoads, applies,
                   gestureVars, canvasVars, selectedSurface>>

NextZoom ==
    \/ \E image \in Images : UserEvent(SetLoadedImage(image))
    \/ \E p \in pendingLoads, vp \in Viewports : Completion(ImgOnload(p, vp))
    \/ UserEvent(OpenSelector)
    \/ UserEvent(ZoomOut)
    \/ UserEvent(ZoomIn)
    \/ UserEvent(ResetViewButton)
    \/ \E zoom \in ZoomArguments : setSelectorZoom(zoom)
    \/ resetView

SpecZoom == InitZoom /\ [][NextZoom]_vars

\* C27: imageZoom stays in [0.5, 3] under zoom in, zoom out and reset, and
\* the store's selectorZoom stays in [0.5, 4] under setSelectorZoom and
\* resetView, whatever the arguments
C27_ZoomInRange ==
    /\ QLe(ZoomMin, imageZoom)
    /\ QLe(imageZoom, ZoomMax)
    /\ probe.op = "store" =>
          /\ probe.selectorZoom \notin NonFinite
          /\ QLe(SelectorZoomMin, probe.selectorZoom)
          /\ QLe(probe.selectorZoom, SelectorZoomMax)


\* the source-image position handleApplyTextures would extract a selection
\* at: x / zoom and y / zoom converted with the base canvas
SourcePosition(selection, zoom, base, img) ==
    [x |-> QMul(QDiv(selection.x, zoom), QDiv(QInt(img.width), base.width)),
     y |-> QMul(QDiv(selection.y, zoom), QDiv(QInt(img.height), base.height))]

\* C28: a step that changes the view zoom leaves the source-image position
\* extracted for every selection as it was
C28_ZoomKeepsSourcePosition ==
    [][(imageZoom' # imageZoom /\ loadedImage # NoImage) =>
          \A s \in Surfaces :
              SourcePosition(selections'[s], imageZoom', baseCanvasSize', loadedImage')
                  = SourcePosition(selections[s], imageZoom, baseCanvasSize, loadedImage)]_vars


\* the footprint of a selection as drawn and hit-tested: the rectangle turned
\* about its centre, width and height swapped at 90 and 270
FootprintRect(selection) ==
    LET centerX == QAdd(selection.x, QDiv(selection.width, QInt(2)))
        centerY == QAdd(selection.y, QDiv(selection.height, QInt(2)))
        swapped == selection.rotation \in {90, 270}
        footprintW == IF swapped THEN selection.height ELSE selection.width
        footprintH == IF swapped THEN selection.width ELSE selection.height
    IN  [left |-> QSub(centerX, QDiv(footprintW, QInt(2))),
         right |-> QAdd(centerX, QDiv(footprintW, QInt(2))),
         top |-> QSub(centerY, QDiv(footprintH, QInt(2))),
         bottom |-> QAdd(centerY, QDiv(footprintH, QInt(2)))]

\* C29: after every drag update the footprint of the dragged selection lies
\* inside the canvas
C29_DraggedFootprintInsideCanvas ==
    [][\A e \in Pointers, rect \in Rects :
          (isDragging # "none" /\ handleMouseMove(e, rect)) =>
              LET footprint == FootprintRect(selections'[isDragging])
              IN  /\ QLe(QZero, footprint.left)
                  /\ QLe(footprint.right, canvasSize'.width)
                  /\ QLe(QZero, footprint.top)
                  /\ QLe(footprint.bottom, canvasSize'.height)]_vars


\* C30: the applied textures of top, left and right are all null or all
\* non-null, after every step, and a step that makes appliedTextures non-null
\* is taken while an image is loaded
C30_TexturesAllOrNoneAndImageLoaded ==
    [][
        /\ \/ \A s \in Surfaces : appliedTextures'[s] = NoTexture
           \/ \A s \in Surfaces : appliedTextures'[s] # NoTexture
        /\ (/\ appliedTextures' # appliedTextures
            /\ \E s \in Surfaces : appliedTextures'[s] # NoTexture) =>
              (loadedImage # NoImage /\ loadedImage' # NoImage)
      ]_vars

=============================================================================
